---- MODULE Spec2Model ----
(***************************************************************************)
(* A model of gen_recomp.py: the structure descriptor system               *)
(* (unpack_structure, struct_size, alignN) and the pipeline of main()      *)
(* (required-section discovery, ROM header, overlay classification,        *)
(* microcode extraction and the artifacts written on the way).             *)
(*                                                                         *)
(* Two specifications share the module:                                    *)
(*   SpecUnpack  one call of unpack_structure, one loop iteration per      *)
(*               step, over bounded descriptors and buffers;               *)
(*   Spec        one run of main() over a bounded section table.           *)
(***************************************************************************)
EXTENDS Integers, Sequences, FiniteSets, TLC

VARIABLES
    \* ---- unpack_structure(data, struct_type) ----
    struct_type,        \* the descriptor: sequence of field types (__annotations__ order)
    data,               \* the buffer handed to unpack
    upc,                \* "idle" | "loop" | "done"
    ust,                \* the locals of unpack_structure (see UnpackStart)
    \* ---- main(elf_path): the parsed input ----
    shdrs,              \* the section table, in table order
    symbols_forname,    \* name -> st_value, the "...SegmentTextSize" entries
    \* ---- main(elf_path): its locals ----
    pc,                 \* the statement main() is at, "exit0" or "abort"
    error,              \* the exception that ended the run, "" when there is none
    symtab, strtab,     \* None or the section found
    makerom,            \* None or the "..makerom" section's data
    n,                  \* how many required sections were found
    rom_header,         \* None or the decoded N64_ROM_HEADER
    ovl_sections,       \* the overlay names collected
    ucode,              \* index into UCODES_FOR_RECOMP of the current iteration
    text_start, text_end, data_start, data_end,   \* None or the symbol found
    text_start_v, text_end_v, data_start_v, data_end_v,   \* None or its st_value
    ucode_text, ucode_data,                       \* None or the extracted bytes
    \* ---- the file system ----
    files               \* the artifacts written so far

uvars == <<struct_type, data, upc, ust>>
mvars == <<shdrs, symbols_forname, pc, error, symtab, strtab, makerom, n,
           rom_header, ovl_sections, ucode, text_start, text_end, data_start,
           data_end, text_start_v, text_end_v, data_start_v, data_end_v,
           ucode_text, ucode_data, files>>
vars  == <<uvars, mvars>>

\* ------------------------------------------------------------------------
\* Bounds of the unpack model
\* ------------------------------------------------------------------------
MaxFields == 2
MaxBufLen == 16

\* ------------------------------------------------------------------------
\* Small helpers
\* ------------------------------------------------------------------------
Max(a, b) == IF a >= b THEN a ELSE b
Min(a, b) == IF a <= b THEN a ELSE b

\* Python slice s[a:b] for 0 <= a, 0 <= b (clamped to the length, empty when b <= a)
Slice(s, a, b) == SubSeq(s, Min(a, Len(s)) + 1, Min(b, Len(s)))

\* x & ~m on non-negative Python integers, bit by bit
RECURSIVE AndNot(_, _)
AndNot(x, m) ==
    IF x = 0 THEN 0
    ELSE (x % 2) * (1 - (m % 2)) + 2 * AndNot(x \div 2, m \div 2)

alignN(x, a) == AndNot(x + a - 1, a - 1)

\* ------------------------------------------------------------------------
\* StructType and its primitives; Array[item_type, item_num]
\* ------------------------------------------------------------------------
u64  == [name |-> "u64",  SIZE |-> 8, ALIGN |-> 8, FMT |-> "Q", IS_ARRAY |-> FALSE, ARRAY_NUM |-> 1]
u32  == [name |-> "u32",  SIZE |-> 4, ALIGN |-> 4, FMT |-> "I", IS_ARRAY |-> FALSE, ARRAY_NUM |-> 1]
u16  == [name |-> "u16",  SIZE |-> 2, ALIGN |-> 2, FMT |-> "H", IS_ARRAY |-> FALSE, ARRAY_NUM |-> 1]
u8   == [name |-> "u8",   SIZE |-> 1, ALIGN |-> 1, FMT |-> "B", IS_ARRAY |-> FALSE, ARRAY_NUM |-> 1]
byte == [name |-> "byte", SIZE |-> 1, ALIGN |-> 1, FMT |-> "B", IS_ARRAY |-> FALSE, ARRAY_NUM |-> 1]
char == [name |-> "char", SIZE |-> 1, ALIGN |-> 1, FMT |-> "c", IS_ARRAY |-> FALSE, ARRAY_NUM |-> 1]

Array(item_type, item_num) ==
    [item_type EXCEPT !.IS_ARRAY = TRUE, !.ARRAY_NUM = item_num]

\* ------------------------------------------------------------------------
\* struct / bytes decoding
\* ------------------------------------------------------------------------
\* int.from_bytes(b, "big"), what struct.unpack(">B|H|I|Q") yields. A u64 does
\* not fit TLC's integers, so the integer is held as its canonical base-256
\* numeral: the big-endian digits without leading zeros (0 is <<>>).
RECURSIVE BigEndian(_)
BigEndian(b) ==
    IF Len(b) = 0 THEN <<>>
    ELSE IF b[1] = 0 THEN BigEndian(Tail(b))
    ELSE b

\* struct.iter_unpack(">" + FMT, mydata) on a buffer that is a multiple of size
RECURSIVE IterUnpack(_, _)
IterUnpack(mydata, size) ==
    IF Len(mydata) = 0 THEN <<>>
    ELSE <<BigEndian(SubSeq(mydata, 1, size))>>
         \o IterUnpack(SubSeq(mydata, size + 1, Len(mydata)), size)

\* bytes(mydata).decode("ASCII") succeeds only on 7-bit bytes
IsAscii(mydata) == \A k \in 1..Len(mydata) : mydata[k] < 128

\* The decoding of one field (lines 153-163): [err, value]
DecodeField(field_type, mydata) ==
    IF field_type.IS_ARRAY THEN
        IF field_type.FMT = "c" THEN
            IF IsAscii(mydata) THEN [err |-> "none", value |-> mydata]
            ELSE [err |-> "UnicodeDecodeError", value |-> <<>>]
        ELSE
            IF Len(mydata) % field_type.SIZE = 0
            THEN [err |-> "none", value |-> IterUnpack(mydata, field_type.SIZE)]
            ELSE [err |-> "struct.error", value |-> <<>>]
    ELSE
        IF Len(mydata) # field_type.SIZE
        THEN [err |-> "struct.error", value |-> <<>>]
        ELSE IF field_type.FMT = "c"
        THEN [err |-> "none", value |-> mydata]
        ELSE [err |-> "none", value |-> BigEndian(mydata)]

\* ------------------------------------------------------------------------
\* unpack_structure
\* ------------------------------------------------------------------------
\* locals before the loop (lines 134-137); offsets records where each field
\* was read from (the lower index of the slice on line 144)
UnpackStart ==
    [i |-> 1, total_size_bytes |-> 0, greatest_align |-> 0,
     values |-> <<>>, offsets |-> <<>>, status |-> "running"]

\* one iteration of the loop over __annotations__ (lines 139-163)
UnpackField(fields, buf, st) ==
    LET field_type == fields[st.i]
        size_bytes == field_type.SIZE * field_type.ARRAY_NUM
        align      == field_type.ALIGN
        mydata     == Slice(buf, st.total_size_bytes, st.total_size_bytes + size_bytes)
        dec        == DecodeField(field_type, mydata)
    IN  [i                |-> st.i + 1,
         total_size_bytes |-> alignN(st.total_size_bytes + size_bytes, align),
         greatest_align   |-> Max(st.greatest_align, align),
         values           |-> IF dec.err = "none" THEN Append(st.values, dec.value)
                              ELSE st.values,
         offsets          |-> Append(st.offsets, st.total_size_bytes),
         status           |-> IF dec.err = "none" THEN "running" ELSE dec.err]

\* after the loop (lines 165-169)
UnpackFinish(buf, st) ==
    LET total == alignN(st.total_size_bytes, st.greatest_align)
    IN  [st EXCEPT !.total_size_bytes = total,
                   !.status = IF Len(buf) = total THEN "ok" ELSE "AssertionError"]

\* the whole call, as main() uses it through from_bin
RECURSIVE UnpackRun(_, _, _)
UnpackRun(fields, buf, st) ==
    IF st.status # "running" THEN st
    ELSE IF st.i > Len(fields) THEN UnpackFinish(buf, st)
    ELSE UnpackRun(fields, buf, UnpackField(fields, buf, st))

unpack_structure(buf, fields) == UnpackRun(fields, buf, UnpackStart)

\* ------------------------------------------------------------------------
\* struct_size
\* ------------------------------------------------------------------------
RECURSIVE StructSizeLoop(_, _, _, _)
StructSizeLoop(fields, k, total_size_bytes, greatest_align) ==
    IF k > Len(fields) THEN alignN(total_size_bytes, greatest_align)
    ELSE LET field_type == fields[k]
             size_bytes == field_type.SIZE * field_type.ARRAY_NUM
             align      == field_type.ALIGN
         IN  StructSizeLoop(fields, k + 1,
                            alignN(total_size_bytes + size_bytes, align),
                            Max(greatest_align, align))

struct_size(fields) == StructSizeLoop(fields, 1, 0, 0)

\* ------------------------------------------------------------------------
\* Inputs of the unpack model
\* ------------------------------------------------------------------------
Primitives  == {u8, u16, u32, u64, byte, char}
ArrayItems  == {u8, u16, u32, char}
ArrayNums   == {0, 3}
FieldTypes  == Primitives \cup {Array(t, num) : t \in ArrayItems, num \in ArrayNums}

\* StructClassMeta refuses a class without annotations (lines 213-214)
Descriptors == UNION {[1..k -> FieldTypes] : k \in 1..MaxFields}

\* buffers: byte j holds j, except that one byte may have its top bit set
Buffer(len, h) == [j \in 1..len |-> IF j = h THEN 128 + j ELSE j]
Buffers      == {Buffer(len, h) : len \in 0..MaxBufLen, h \in 0..MaxBufLen}

\* ------------------------------------------------------------------------
\* SpecUnpack: one call StructClass.from_bin(data)
\* ------------------------------------------------------------------------
InitUnpackVars ==
    /\ struct_type \in Descriptors
    /\ data \in Buffers
    /\ upc = "idle"
    /\ ust = UnpackStart

\* from_bin -> unpack_structure: lines 132-137
UCall ==
    /\ upc = "idle"
    /\ upc' = "loop"
    /\ ust' = UnpackStart
    /\ UNCHANGED <<struct_type, data, mvars>>

\* one loop iteration; an exception leaves the call
ULoop ==
    /\ upc = "loop"
    /\ ust.i <= Len(struct_type)
    /\ ust' = UnpackField(struct_type, data, ust)
    /\ upc' = IF ust'.status = "running" THEN "loop" ELSE "done"
    /\ UNCHANGED <<struct_type, data, mvars>>

\* the trailing alignment, the size assertion and the return
UReturn ==
    /\ upc = "loop"
    /\ ust.i > Len(struct_type)
    /\ ust' = UnpackFinish(data, ust)
    /\ upc' = "done"
    /\ UNCHANGED <<struct_type, data, mvars>>

\* ========================================================================
\* main(elf_path)
\* ========================================================================

\* Optional values: None is <<>>, a value x is <<x>>
None    == <<>>
Some(x) == <<x>>

\* ------------------------------------------------------------------------
\* Names are sequences of characters, so that startswith, endswith and the
\* slice name[2:] are computed as the code computes them
\* ------------------------------------------------------------------------
Name_symtab   == <<".", "s", "y", "m", "t", "a", "b">>
Name_strtab   == <<".", "s", "t", "r", "t", "a", "b">>
Name_makerom  == <<".", ".", "m", "a", "k", "e", "r", "o", "m">>
Name_ovl_a    == <<".", ".", "o", "v", "l", "_", "a">>
Name_ovl_b    == <<".", ".", "o", "v", "l", "_", "b">>
Name_ovl_abss == <<".", ".", "o", "v", "l", "_", "a", ".", "b", "s", "s">>
OvlPrefix     == <<".", ".", "o", "v", "l", "_">>
BssSuffix     == <<".", "b", "s", "s">>
SegmentTextSize == <<"S", "e", "g", "m", "e", "n", "t", "T", "e", "x", "t", "S", "i", "z", "e">>

\* str.startswith / str.endswith
StartsWith(name, prefix) ==
    /\ Len(name) >= Len(prefix)
    /\ SubSeq(name, 1, Len(prefix)) = prefix

EndsWith(name, suffix) ==
    /\ Len(name) >= Len(suffix)
    /\ SubSeq(name, Len(name) - Len(suffix) + 1, Len(name)) = suffix

\* f"_{name[2:]}SegmentTextSize" (line 437)
SegmentTextSizeSymbol(name) ==
    <<"_">> \o SubSeq(name, 3, Len(name)) \o SegmentTextSize

\* ------------------------------------------------------------------------
\* Program constants. Virtual addresses are held as their distance from
\* 0x80000000 (they must stay within TLC's 32-bit signed integers), so the
\* overlay threshold 0x80800000 of lines 434 and 440 is 0x00800000 here.
\* ------------------------------------------------------------------------
SHT_NOBITS   == 8
OvlThreshold == 8388608

\* ------------------------------------------------------------------------
\* The digests. hashlib.md5 and xxh3_64 are external; they are modelled as
\* deterministic functions of the bytes with a small range (so two different
\* byte strings may share a digest, as with any digest).
\* ------------------------------------------------------------------------
RECURSIVE md5sum(_)
md5sum(b) ==
    IF Len(b) = 0 THEN 7
    ELSE (31 * md5sum(SubSeq(b, 1, Len(b) - 1)) + b[Len(b)] + 1) % 251

RECURSIVE xxhash(_)
xxhash(b) ==
    IF Len(b) = 0 THEN 3
    ELSE (17 * xxhash(SubSeq(b, 1, Len(b) - 1)) + b[Len(b)] + 5) % 241

\* ------------------------------------------------------------------------
\* N64_ROM_HEADER (lines 304-317) and the header bytes of the test image
\* ------------------------------------------------------------------------
N64_ROM_HEADER ==
    << u8, Array(u8, 3), u32, u32, u32, u64, Array(u8, 8), Array(char, 20),
       Array(u8, 7), u8, Array(u8, 2), u8, u8 >>

\* 0x40 bytes; rom_name (offsets 0x20..0x33) reads " Z M" padded with spaces
HeaderBytes ==
    [j \in 1..64 |->
        IF j = 34 THEN 90
        ELSE IF j = 36 THEN 77
        ELSE IF j \in 33..52 THEN 32
        ELSE j]

\* str.strip(): leading and trailing whitespace removed
IsSpace(c) == c \in {9, 10, 11, 12, 13, 32}

RECURSIVE LStrip(_)
LStrip(t) == IF Len(t) > 0 /\ IsSpace(t[1]) THEN LStrip(Tail(t)) ELSE t

RECURSIVE RStrip(_)
RStrip(t) ==
    IF Len(t) > 0 /\ IsSpace(t[Len(t)]) THEN RStrip(SubSeq(t, 1, Len(t) - 1)) ELSE t

Strip(t) == RStrip(LStrip(t))

\* the companion ROM image read on line 531 (the file is taken to exist)
RomData == <<128, 55, 18, 64>>

\* ------------------------------------------------------------------------
\* The section table of the input image
\* ------------------------------------------------------------------------
Section(name, sh_type, sh_addr, sh_size, bytes) ==
    [name |-> name, sh_type |-> sh_type, sh_addr |-> sh_addr,
     sh_size |-> sh_size, data |-> bytes]

\* read_shdr (lines 266-273): a SHT_NOBITS section has data None
SectionData(shdr) ==
    IF shdr.sh_type # SHT_NOBITS THEN Some(shdr.data) ELSE None

\* address 0 (non-allocated sections), as a distance from 0x80000000
AddrZero == (-2147483647) - 1

OvlBytes == <<11, 22, 33, 44>>

\* the sections a table is made of: the three required ones, a "..makerom"
\* without file content that also sits above the threshold, and overlay
\* sections: two above the threshold, one below it, one ".bss"
SectionPool ==
    { Section(Name_symtab,   2, AddrZero, 2, <<1, 2>>),
      Section(Name_strtab,   3, AddrZero, 2, <<0, 95>>),
      Section(Name_makerom,  1, 0, 64, HeaderBytes),
      Section(Name_makerom,  SHT_NOBITS, OvlThreshold, 64, <<>>),
      Section(Name_ovl_a,    1, OvlThreshold, 4, OvlBytes),
      Section(Name_ovl_a,    1, OvlThreshold - 1, 4, OvlBytes),
      Section(Name_ovl_b,    1, OvlThreshold + 16, 2, <<7, 8>>),
      Section(Name_ovl_abss, SHT_NOBITS, OvlThreshold + 4, 2, <<>>) }

MaxSections == 5

SectionTables == UNION {[1..k -> SectionPool] : k \in 0..MaxSections}

\* the "...SegmentTextSize" part of symbols_forname (line 390)
SegmentSymbolNames ==
    {SegmentTextSizeSymbol(Name_ovl_a), SegmentTextSizeSymbol(Name_ovl_b)}

\* "_ovl_aSegmentTextSize" is absent, zero or not; "_ovl_bSegmentTextSize" is 16
SegmentSymbolMaps ==
    { [nm \in D |-> IF nm = SegmentTextSizeSymbol(Name_ovl_a) THEN va ELSE 16] :
        D \in {S \in SUBSET SegmentSymbolNames :
                  SegmentTextSizeSymbol(Name_ovl_b) \in S},
        va \in {0, 16} }

\* the st_value a boundary symbol may have (distances from 0x80000000):
\* inside "..makerom", inside "..ovl_a", at the start of "..ovl_a.bss" (the
\* upper bound of "..ovl_a"), and for an end also the upper bound of "..makerom"
TextStartValues == {62, OvlThreshold + 2, OvlThreshold + 4}
TextEndValues   == {60, 64, OvlThreshold + 4}
DataStartValues == {62, OvlThreshold + 2}
DataEndValues   == {64, OvlThreshold + 4}

\* ------------------------------------------------------------------------
\* UCODES_FOR_RECOMP (lines 331-342). text_md5 and data_md5 are the digests
\* of the reference microcode bytes; with md5 modelled, they are the modelled
\* digests of the reference bytes of the test image.
\* ------------------------------------------------------------------------
UCODES_FOR_RECOMP ==
    << [name |-> "aspMain", text_addr |-> "0x04001000",
        text_md5 |-> md5sum(<<33, 44>>), data_md5 |-> md5sum(<<63, 64>>)],
       [name |-> "njpgdspMain", text_addr |-> "0x04001080",
        text_md5 |-> md5sum(<<63, 64>>), data_md5 |-> md5sum(<<63, 64>>)] >>

NoFiles ==
    [toml |-> None, overlays |-> None,
     text_bin   |-> [u \in 1..Len(UCODES_FOR_RECOMP) |-> None],
     ucode_toml |-> [u \in 1..Len(UCODES_FOR_RECOMP) |-> None],
     rom_config |-> None]

\* ------------------------------------------------------------------------
\* Required-section discovery (lines 363-385)
\* ------------------------------------------------------------------------
FindStart == [k |-> 1, symtab |-> None, strtab |-> None, makerom |-> None,
              n |-> 0, err |-> ""]

\* the body of the loop for one section, up to the "if n == 3" test
FindBody(shdr, st) ==
    IF shdr.name = Name_symtab THEN
        IF st.symtab # None THEN [st EXCEPT !.err = "AssertionError"]
        ELSE [st EXCEPT !.symtab = Some(shdr), !.n = @ + 1]
    ELSE IF shdr.name = Name_strtab THEN
        IF st.strtab # None THEN [st EXCEPT !.err = "AssertionError"]
        ELSE [st EXCEPT !.strtab = Some(shdr), !.n = @ + 1]
    ELSE IF shdr.name = Name_makerom THEN
        IF st.makerom # None THEN [st EXCEPT !.err = "AssertionError"]
        ELSE [st EXCEPT !.makerom = SectionData(shdr), !.n = @ + 1]
    ELSE st

RECURSIVE FindLoop(_, _)
FindLoop(tbl, st) ==
    IF st.k > Len(tbl) THEN [st EXCEPT !.err = "AssertionError"]  \* for ... else
    ELSE LET s1 == FindBody(tbl[st.k], st)
         IN  IF s1.err # "" THEN s1
             ELSE IF s1.n = 3 THEN s1                              \* break
             ELSE FindLoop(tbl, [s1 EXCEPT !.k = @ + 1])

\* ------------------------------------------------------------------------
\* Overlay classification (lines 427-440)
\* ------------------------------------------------------------------------
\* A plausible slip: the assertion of the else branch (line 440) left out
ClassifyBody_noelse(shdr, syms) ==
    IF StartsWith(shdr.name, OvlPrefix) THEN
        IF ~(shdr.sh_addr >= OvlThreshold) THEN "AssertionError"
        ELSE IF ~EndsWith(shdr.name, BssSuffix) THEN
            IF SegmentTextSizeSymbol(shdr.name) \notin DOMAIN syms THEN "KeyError"
            ELSE IF syms[SegmentTextSizeSymbol(shdr.name)] # 0 THEN "append"
            ELSE "pass"
        ELSE "pass"
    ELSE "pass"

\* A plausible slip: the SegmentTextSize test (line 437) left out
ClassifyBody_notextsize(shdr, syms) ==
    IF StartsWith(shdr.name, OvlPrefix) THEN
        IF ~(shdr.sh_addr >= OvlThreshold) THEN "AssertionError"
        ELSE IF ~EndsWith(shdr.name, BssSuffix) THEN "append"
        ELSE "pass"
    ELSE IF ~(shdr.sh_addr < OvlThreshold) THEN "AssertionError"
    ELSE "pass"

\* the body of the loop for one section (lines 430-440): the exception
\* raised, "append" (line 438) or "pass"
ClassifyBody(shdr, syms) ==
    IF StartsWith(shdr.name, OvlPrefix) THEN
        IF ~(shdr.sh_addr >= OvlThreshold) THEN "AssertionError"
        ELSE IF ~EndsWith(shdr.name, BssSuffix) THEN
            IF SegmentTextSizeSymbol(shdr.name) \notin DOMAIN syms THEN "KeyError"
            ELSE IF syms[SegmentTextSizeSymbol(shdr.name)] # 0 THEN "append"
            ELSE "pass"
        ELSE "pass"
    ELSE IF ~(shdr.sh_addr < OvlThreshold) THEN "AssertionError"
    ELSE "pass"

RECURSIVE ClassifyLoop(_, _, _, _)
ClassifyLoop(tbl, syms, k, acc) ==
    IF k > Len(tbl) THEN [err |-> "", ovl_sections |-> acc]
    ELSE LET r == ClassifyBody(tbl[k], syms)
         IN  IF r = "append"
             THEN ClassifyLoop(tbl, syms, k + 1, Append(acc, tbl[k].name))
             ELSE IF r = "pass"
             THEN ClassifyLoop(tbl, syms, k + 1, acc)
             ELSE [err |-> r, ovl_sections |-> acc]

\* ------------------------------------------------------------------------
\* Range resolution (lines 472-493)
\* ------------------------------------------------------------------------
\* one of the two "if ... in range(start,end)" blocks: cur is ucode_text or
\* ucode_data so far; the result is [err, val] with val the new value of it.
\* Two plausible slips come first: the "is None" assertion (lines 480, 487)
\* left out, and the assertion on the end symbol (lines 483, 490) left out.
ResolveIn_nooverlapcheck(shdr, start_v, end_v, cur) ==
    LET start == shdr.sh_addr
        end   == start + shdr.sh_size
    IN  IF start_v >= start /\ start_v < end THEN
            IF ~(end_v >= start /\ end_v < end + 1)
            THEN [err |-> "AssertionError", val |-> cur]
            ELSE IF SectionData(shdr) = None
            THEN [err |-> "TypeError", val |-> cur]
            ELSE [err |-> "",
                  val |-> Some(Slice(shdr.data, start_v - start, end_v - start))]
        ELSE [err |-> "", val |-> cur]

ResolveIn_noendcheck(shdr, start_v, end_v, cur) ==
    LET start == shdr.sh_addr
        end   == start + shdr.sh_size
    IN  IF start_v >= start /\ start_v < end THEN
            IF cur # None THEN [err |-> "AssertionError", val |-> cur]
            ELSE IF SectionData(shdr) = None
            THEN [err |-> "TypeError", val |-> cur]
            ELSE [err |-> "",
                  val |-> Some(Slice(shdr.data, start_v - start, end_v - start))]
        ELSE [err |-> "", val |-> cur]

ResolveIn(shdr, start_v, end_v, cur) ==
    LET start == shdr.sh_addr
        end   == start + shdr.sh_size
    IN  IF start_v >= start /\ start_v < end THEN
            IF cur # None THEN [err |-> "AssertionError", val |-> cur]
            ELSE IF ~(end_v >= start /\ end_v < end + 1)
            THEN [err |-> "AssertionError", val |-> cur]
            ELSE IF SectionData(shdr) = None
            THEN [err |-> "TypeError", val |-> cur]
            ELSE [err |-> "",
                  val |-> Some(Slice(shdr.data, start_v - start, end_v - start))]
        ELSE [err |-> "", val |-> cur]

RECURSIVE ScanLoop(_, _, _, _, _, _, _, _)
ScanLoop(tbl, k, ts, te, ds, de, txt, dat) ==
    IF k > Len(tbl)
    THEN [err |-> IF txt # None /\ dat # None THEN "" ELSE "AssertionError",
          ucode_text |-> txt, ucode_data |-> dat]
    ELSE LET rt == ResolveIn(tbl[k], ts, te, txt)
         IN  IF rt.err # ""
             THEN [err |-> rt.err, ucode_text |-> txt, ucode_data |-> dat]
             ELSE LET rd == ResolveIn(tbl[k], ds, de, dat)
                  IN  IF rd.err # ""
                      THEN [err |-> rd.err, ucode_text |-> rt.val, ucode_data |-> dat]
                      ELSE ScanLoop(tbl, k + 1, ts, te, ds, de, rt.val, rd.val)

NextUnpack == UCall \/ ULoop \/ UReturn

\* ------------------------------------------------------------------------
\* The run of main(), one action per statement group
\* ------------------------------------------------------------------------
InitMainVars ==
    /\ shdrs \in SectionTables
    /\ symbols_forname = <<>>
    /\ pc = "find_sections"
    /\ error = ""
    /\ symtab = None /\ strtab = None /\ makerom = None /\ n = 0
    /\ rom_header = None
    /\ ovl_sections = <<>>
    /\ ucode = 1
    /\ text_start = None /\ text_end = None
    /\ data_start = None /\ data_end = None
    /\ text_start_v = None /\ text_end_v = None
    /\ data_start_v = None /\ data_end_v = None
    /\ ucode_text = None /\ ucode_data = None
    /\ files = NoFiles

\* An uncaught exception ends the process: what it held in memory is gone,
\* the files already written stay.
Abort(kind) ==
    /\ pc' = "abort"
    /\ error' = kind
    /\ shdrs' = <<>>
    /\ symbols_forname' = <<>>
    /\ symtab' = None /\ strtab' = None /\ makerom' = None /\ n' = 0
    /\ rom_header' = None
    /\ ovl_sections' = <<>>
    /\ ucode' = 1
    /\ text_start' = None /\ text_end' = None
    /\ data_start' = None /\ data_end' = None
    /\ text_start_v' = None /\ text_end_v' = None
    /\ data_start_v' = None /\ data_end_v' = None
    /\ ucode_text' = None /\ ucode_data' = None
    /\ UNCHANGED <<files, uvars>>

\* lines 363-385. The result of a loop is bound once, as the one element of
\* a singleton set, in this action and in the ones below.
FindRequiredSections ==
    /\ pc = "find_sections"
    /\ \E r \in {FindLoop(shdrs, FindStart)} :
           IF r.err # "" THEN Abort(r.err)
           ELSE /\ symtab' = r.symtab
                /\ strtab' = r.strtab
                /\ makerom' = r.makerom
                /\ n' = r.n
                /\ pc' = "collect_symbols"
                /\ UNCHANGED <<shdrs, symbols_forname, error, rom_header,
                               ovl_sections, ucode, text_start, text_end,
                               data_start, data_end, text_start_v, text_end_v,
                               data_start_v, data_end_v, ucode_text,
                               ucode_data, files, uvars>>

\* lines 389-390: the symbol table is parsed here, so its content is drawn
\* here. symtab.data and strtab.data raise on None (the symbol table of the
\* images modelled is not empty).
CollectSymbols ==
    /\ pc = "collect_symbols"
    /\ IF symtab = None \/ strtab = None
       THEN Abort("AttributeError: NoneType has no attribute data")
       ELSE /\ symbols_forname' \in SegmentSymbolMaps
            /\ pc' = "rom_header"
            /\ UNCHANGED <<shdrs, error, symtab, strtab, makerom, n,
                           rom_header, ovl_sections, ucode, text_start,
                           text_end, data_start, data_end, text_start_v,
                           text_end_v, data_start_v, data_end_v, ucode_text,
                           ucode_data, files, uvars>>

\* line 394: N64_ROM_HEADER.from_bin(makerom[:N64_ROM_HEADER.SIZE])
ReadRomHeader ==
    /\ pc = "rom_header"
    /\ IF makerom = None
       THEN Abort("TypeError: NoneType is not subscriptable")
       ELSE \E r \in {unpack_structure(
                         Slice(makerom[1], 0, struct_size(N64_ROM_HEADER)),
                         N64_ROM_HEADER)} :
                IF r.status # "ok" THEN Abort(r.status)
                ELSE /\ rom_header' = Some(r.values)
                     /\ pc' = "write_toml"
                     /\ UNCHANGED <<shdrs, symbols_forname, error, symtab,
                                    strtab, makerom, n, ovl_sections, ucode,
                                    text_start, text_end, data_start, data_end,
                                    text_start_v, text_end_v, data_start_v,
                                    data_end_v, ucode_text, ucode_data, files,
                                    uvars>>

\* lines 398-423: the generated config
WriteToml ==
    /\ pc = "write_toml"
    /\ files' = [files EXCEPT !.toml =
                    Some([rom_name   |-> rom_header[1][8],
                          entrypoint |-> rom_header[1][4],
                          relocatable_sections_path |-> "overlays.txt"])]
    /\ pc' = "classify"
    /\ UNCHANGED <<shdrs, symbols_forname, error, symtab, strtab, makerom, n,
                   rom_header, ovl_sections, ucode, text_start, text_end,
                   data_start, data_end, text_start_v, text_end_v,
                   data_start_v, data_end_v, ucode_text, ucode_data, uvars>>

\* lines 427-440
ClassifyOverlays ==
    /\ pc = "classify"
    /\ \E r \in {ClassifyLoop(shdrs, symbols_forname, 1, <<>>)} :
           IF r.err # "" THEN Abort(r.err)
           ELSE /\ ovl_sections' = r.ovl_sections
                /\ pc' = "write_overlays"
                /\ UNCHANGED <<shdrs, symbols_forname, error, symtab, strtab,
                               makerom, n, rom_header, ucode, text_start,
                               text_end, data_start, data_end, text_start_v,
                               text_end_v, data_start_v, data_end_v,
                               ucode_text, ucode_data, files, uvars>>

\* str.join of line 445
RECURSIVE Join(_, _)
Join(sep, names) ==
    IF Len(names) = 0 THEN <<>>
    ELSE IF Len(names) = 1 THEN names[1]
    ELSE names[1] \o sep \o Join(sep, Tail(names))

\* lines 444-445: "\n".join(ovl_sections) + "\n" is written
WriteOverlays ==
    /\ pc = "write_overlays"
    /\ files' = [files EXCEPT !.overlays =
                    Some(Join(<<"\n">>, ovl_sections) \o <<"\n">>)]
    /\ pc' = "ucode_loop"
    /\ UNCHANGED <<shdrs, symbols_forname, error, symtab, strtab, makerom, n,
                   rom_header, ovl_sections, ucode, text_start, text_end,
                   data_start, data_end, text_start_v, text_end_v,
                   data_start_v, data_end_v, ucode_text, ucode_data, uvars>>

\* symbols_forname.get(name, None): the symbol found is held as its name
Lookup(present, name, suffix) ==
    IF present THEN Some(<<name, suffix>>) ELSE None

\* A plausible slip: any() and all() exchanged on lines 459 and 462
SymbolsCase_anyall(all_syms) ==
    IF \E j \in 1..Len(all_syms) : all_syms[j] = None THEN "continue"
    ELSE IF \A j \in 1..Len(all_syms) : all_syms[j] = None THEN "assert False"
    ELSE "found"

\* lines 459-463: the branch taken on all_syms
SymbolsCase(all_syms) ==
    IF \A j \in 1..Len(all_syms) : all_syms[j] = None THEN "continue"
    ELSE IF \E j \in 1..Len(all_syms) : all_syms[j] = None THEN "assert False"
    ELSE "found"

\* lines 449-463. Each boundary name is looked up once in a run, so whether
\* the symbol table holds it is drawn at the lookup. The four lookups are
\* kept when the assertion of line 463 fails: they are what it reports on.
LocateSymbols ==
    /\ pc = "ucode_loop"
    /\ ucode <= Len(UCODES_FOR_RECOMP)
    /\ \E has \in [{"TextStart", "TextEnd", "DataStart", "DataEnd"} -> BOOLEAN] :
         LET name     == UCODES_FOR_RECOMP[ucode].name
             ts       == Lookup(has["TextStart"], name, "TextStart")
             te       == Lookup(has["TextEnd"], name, "TextEnd")
             ds       == Lookup(has["DataStart"], name, "DataStart")
             de       == Lookup(has["DataEnd"], name, "DataEnd")
             case     == SymbolsCase(<<ts, te, ds, de>>)
         IN  /\ text_start' = ts /\ text_end' = te
             /\ data_start' = ds /\ data_end' = de
             /\ IF case = "continue"
                THEN /\ ucode' = ucode + 1
                     /\ UNCHANGED <<pc, error>>
                     /\ UNCHANGED <<shdrs, symbols_forname, symtab, strtab,
                                    makerom, n, rom_header, ovl_sections,
                                    text_start_v, text_end_v, data_start_v,
                                    data_end_v, ucode_text, ucode_data, files,
                                    uvars>>
                ELSE IF case = "assert False"
                THEN /\ pc' = "abort"
                     /\ error' = "AssertionError: Could not find all relevant symbols"
                     /\ shdrs' = <<>>
                     /\ symbols_forname' = <<>>
                     /\ symtab' = None /\ strtab' = None /\ makerom' = None
                     /\ n' = 0 /\ rom_header' = None /\ ovl_sections' = <<>>
                     /\ ucode' = 1
                     /\ text_start_v' = None /\ text_end_v' = None
                     /\ data_start_v' = None /\ data_end_v' = None
                     /\ ucode_text' = None /\ ucode_data' = None
                     /\ UNCHANGED <<files, uvars>>
                ELSE /\ pc' = "locate_contents"
                     /\ UNCHANGED <<ucode, error>>
                     /\ UNCHANGED <<shdrs, symbols_forname, symtab, strtab,
                                    makerom, n, rom_header, ovl_sections,
                                    text_start_v, text_end_v, data_start_v,
                                    data_end_v, ucode_text, ucode_data, files,
                                    uvars>>

\* lines 465-493: the four st_value are read (drawn here, each symbol is
\* read once) and the sections are scanned
LocateContents ==
    /\ pc = "locate_contents"
    /\ \E tsv \in TextStartValues, tev \in TextEndValues,
          dsv \in DataStartValues, dev \in DataEndValues :
         \E r \in {ScanLoop(shdrs, 1, tsv, tev, dsv, dev, None, None)} :
             IF r.err # "" THEN Abort(r.err)
             ELSE /\ text_start_v' = Some(tsv) /\ text_end_v' = Some(tev)
                  /\ data_start_v' = Some(dsv) /\ data_end_v' = Some(dev)
                  /\ ucode_text' = r.ucode_text
                  /\ ucode_data' = r.ucode_data
                  /\ pc' = "verify"
                  /\ UNCHANGED <<shdrs, symbols_forname, error, symtab,
                                 strtab, makerom, n, rom_header, ovl_sections,
                                 ucode, text_start, text_end, data_start,
                                 data_end, files, uvars>>

\* A plausible slip: the data digest (line 498) not compared
DigestsMatch_textonly(u, txt, dat) ==
    md5sum(txt) = UCODES_FOR_RECOMP[u].text_md5

\* lines 497-498
DigestsMatch(u, txt, dat) ==
    /\ md5sum(txt) = UCODES_FOR_RECOMP[u].text_md5
    /\ md5sum(dat) = UCODES_FOR_RECOMP[u].data_md5

VerifyDigests ==
    /\ pc = "verify"
    /\ IF ~DigestsMatch(ucode, ucode_text[1], ucode_data[1])
       THEN Abort("AssertionError: md5sum")
       ELSE /\ pc' = "write_text_bin"
            /\ UNCHANGED <<shdrs, symbols_forname, error, symtab, strtab,
                           makerom, n, rom_header, ovl_sections, ucode,
                           text_start, text_end, data_start, data_end,
                           text_start_v, text_end_v, data_start_v, data_end_v,
                           ucode_text, ucode_data, files, uvars>>

\* lines 502-503
WriteTextBin ==
    /\ pc = "write_text_bin"
    /\ files' = [files EXCEPT !.text_bin[ucode] = Some(ucode_text[1])]
    /\ pc' = "write_ucode_toml"
    /\ UNCHANGED <<shdrs, symbols_forname, error, symtab, strtab, makerom, n,
                   rom_header, ovl_sections, ucode, text_start, text_end,
                   data_start, data_end, text_start_v, text_end_v,
                   data_start_v, data_end_v, ucode_text, ucode_data, uvars>>

\* lines 507-527
WriteUcodeToml ==
    /\ pc = "write_ucode_toml"
    /\ files' = [files EXCEPT !.ucode_toml[ucode] =
                    Some([text_offset  |-> 0,
                          text_size    |-> Len(ucode_text[1]),
                          text_address |-> UCODES_FOR_RECOMP[ucode].text_addr,
                          output_function_name |-> UCODES_FOR_RECOMP[ucode].name])]
    /\ pc' = "write_rom_config"
    /\ UNCHANGED <<shdrs, symbols_forname, error, symtab, strtab, makerom, n,
                   rom_header, ovl_sections, ucode, text_start, text_end,
                   data_start, data_end, text_start_v, text_end_v,
                   data_start_v, data_end_v, ucode_text, ucode_data, uvars>>

\* lines 529-540, inside the loop over UCODES_FOR_RECOMP; the iteration ends
WriteRomConfig ==
    /\ pc = "write_rom_config"
    /\ files' = [files EXCEPT !.rom_config =
                    Some([game_id   |-> "recomp::Game::MM",
                          rom_hash  |-> xxhash(RomData),
                          rom_save  |-> "basename(elf_path) with .z64",
                          rom_title |-> Strip(rom_header[1][8])])]
    /\ ucode' = ucode + 1
    /\ pc' = "ucode_loop"
    /\ UNCHANGED <<shdrs, symbols_forname, error, symtab, strtab, makerom, n,
                   rom_header, ovl_sections, text_start, text_end,
                   data_start, data_end, text_start_v, text_end_v,
                   data_start_v, data_end_v, ucode_text, ucode_data, uvars>>

\* the loop is exhausted and main() returns
Return ==
    /\ pc = "ucode_loop"
    /\ ucode > Len(UCODES_FOR_RECOMP)
    /\ pc' = "exit0"
    /\ UNCHANGED <<shdrs, symbols_forname, error, symtab, strtab, makerom, n,
                   rom_header, ovl_sections, ucode, text_start, text_end,
                   data_start, data_end, text_start_v, text_end_v,
                   data_start_v, data_end_v, ucode_text, ucode_data, files,
                   uvars>>

\* ------------------------------------------------------------------------
\* The two specifications
\* ------------------------------------------------------------------------
\* main() is not running in SpecUnpack, unpack is not stepping in Spec
MainIdle ==
    /\ shdrs = <<>> /\ symbols_forname = <<>> /\ pc = "idle" /\ error = ""
    /\ symtab = None /\ strtab = None /\ makerom = None /\ n = 0
    /\ rom_header = None /\ ovl_sections = <<>> /\ ucode = 1
    /\ text_start = None /\ text_end = None
    /\ data_start = None /\ data_end = None
    /\ text_start_v = None /\ text_end_v = None
    /\ data_start_v = None /\ data_end_v = None
    /\ ucode_text = None /\ ucode_data = None
    /\ files = NoFiles

UnpackIdle ==
    /\ struct_type = <<>> /\ data = <<>> /\ upc = "none" /\ ust = UnpackStart

InitUnpack == InitUnpackVars /\ MainIdle

Init == InitMainVars /\ UnpackIdle

Next ==
    \/ FindRequiredSections
    \/ CollectSymbols
    \/ ReadRomHeader
    \/ WriteToml
    \/ ClassifyOverlays
    \/ WriteOverlays
    \/ LocateSymbols
    \/ LocateContents
    \/ VerifyDigests
    \/ WriteTextBin
    \/ WriteUcodeToml
    \/ WriteRomConfig
    \/ Return

Spec == Init /\ [][Next]_vars

SpecUnpack == InitUnpack /\ [][NextUnpack]_vars

\* ========================================================================
\* Properties
\* ========================================================================

\* ---- helpers of the properties (not part of the program) ----
UcodeIds == 1..Len(UCODES_FOR_RECOMP)

\* the sections whose half-open interval [sh_addr, sh_addr+sh_size) holds v
Containing(v) ==
    {k \in 1..Len(shdrs) :
        shdrs[k].sh_addr <= v /\ v < shdrs[k].sh_addr + shdrs[k].sh_size}

\* the sections of the table named nm
Named(nm) == {k \in 1..Len(shdrs) : shdrs[k].name = nm}

\* how many of the four boundary symbols were found
Present(ts, te, ds, de) ==
    Cardinality({j \in 1..4 : <<ts, te, ds, de>>[j] # None})

AfterLocate == {"verify", "write_text_bin", "write_ucode_toml", "write_rom_config"}

AfterClassify ==
    {"write_overlays", "ucode_loop", "locate_contents", "exit0"} \cup AfterLocate

AfterDiscovery ==
    {"collect_symbols", "rom_header", "write_toml", "classify"} \cup AfterClassify

\* ------------------------------------------------------------------------
\* C1: unpack succeeds if and only if the buffer's length equals
\* struct_size of the descriptor, whatever the bytes are.
\* ------------------------------------------------------------------------
C1_UnpackSucceedsIffSizeMatches ==
    upc = "done" =>
        ((ust.status = "ok") <=> (Len(data) = struct_size(struct_type)))

\* ------------------------------------------------------------------------
\* C2: the offset unpack reads a field at never decreases from one field to
\* the next and is a multiple of that field's alignment.
\* ------------------------------------------------------------------------
C2_OffsetsAlignedAndMonotone ==
    \A k \in 1..Len(ust.offsets) :
        /\ ust.offsets[k] % struct_type[k].ALIGN = 0
        /\ k > 1 => ust.offsets[k] >= ust.offsets[k - 1]

\* ------------------------------------------------------------------------
\* C3: at the lookup of a microcode's four boundary symbols: with none found
\* the microcode is skipped (no error, no file written, no artifact of it,
\* the loop goes on with the next one); with one to three found the run
\* aborts; range resolution starts only with all four found.
\* ------------------------------------------------------------------------
C3_PresenceDecides ==
    [][ (pc = "ucode_loop" /\ ucode \in UcodeIds) =>
          LET present == Present(text_start', text_end', data_start', data_end')
          IN  /\ present = 0 =>
                    /\ pc' = "ucode_loop" /\ ucode' = ucode + 1
                    /\ error' = "" /\ files' = files
                    /\ files'.text_bin[ucode] = None
                    /\ files'.ucode_toml[ucode] = None
              /\ present \in 1..3 => pc' = "abort"
              /\ pc' = "locate_contents" => present = 4
      ]_vars

\* the first microcode was skipped and the second one is being resolved
C3_Witness ==
    /\ pc = "locate_contents" /\ ucode = 2
    /\ files.text_bin[1] = None /\ files.ucode_toml[1] = None
    /\ Present(text_start, text_end, data_start, data_end) = 4

\* ------------------------------------------------------------------------
\* C4: digest verification is reached only if exactly one section's
\* half-open interval holds the text start value, and exactly one holds the
\* data start value.
\* ------------------------------------------------------------------------
C4_ExactlyOneSection ==
    pc \in AfterLocate =>
        /\ Cardinality(Containing(text_start_v[1])) = 1
        /\ Cardinality(Containing(data_start_v[1])) = 1

\* text and data resolved in two different sections of a table
C4_Witness ==
    /\ pc = "verify"
    /\ Containing(text_start_v[1]) # Containing(data_start_v[1])
    /\ Len(shdrs) = MaxSections

\* ------------------------------------------------------------------------
\* C5: with the start value S in a section of address A, size N and content
\* C, and the end value E: verification is reached only with A <= E <= A+N,
\* and the bytes extracted are C[S-A .. E-A), of length E-S when E >= S.
\* ------------------------------------------------------------------------
RangeExtracted(S, E, bytes) ==
    /\ Containing(S) # {}
    /\ \A k \in Containing(S) :
         LET A == shdrs[k].sh_addr
             N == shdrs[k].sh_size
             C == shdrs[k].data
         IN  /\ A <= E /\ E <= A + N
             /\ Len(bytes) = IF E >= S THEN E - S ELSE 0
             /\ \A j \in 1..Len(bytes) : bytes[j] = C[S - A + j]

C5_ExtractedRange ==
    pc \in AfterLocate =>
        /\ RangeExtracted(text_start_v[1], text_end_v[1], ucode_text[1])
        /\ RangeExtracted(data_start_v[1], data_end_v[1], ucode_data[1])

\* the end value is the section's upper bound A+N and two bytes are extracted
C5_Witness ==
    /\ pc = "verify"
    /\ \E k \in Containing(text_start_v[1]) :
          text_end_v[1] = shdrs[k].sh_addr + shdrs[k].sh_size
    /\ Len(ucode_text[1]) = 2

\* ------------------------------------------------------------------------
\* C6: the overlay list is written only if, for every section of the table,
\* the name starts with "..ovl_" exactly when the address is >= 0x80800000.
\* ------------------------------------------------------------------------
C6_ClassifierInvariant ==
    pc \in AfterClassify =>
        \A k \in 1..Len(shdrs) :
            StartsWith(shdrs[k].name, OvlPrefix)
                <=> (shdrs[k].sh_addr >= OvlThreshold)

\* the list is about to be written for a table with sections on both sides
C6_Witness ==
    /\ pc = "write_overlays"
    /\ \E k \in 1..Len(shdrs) : shdrs[k].sh_addr >= OvlThreshold
    /\ \E k \in 1..Len(shdrs) : shdrs[k].sh_addr < OvlThreshold

\* ------------------------------------------------------------------------
\* C7: the overlay list written holds, in table order and once per section,
\* the names of the sections that start with "..ovl_", do not end with
\* ".bss" and whose SegmentTextSize symbol is not zero.
\* ------------------------------------------------------------------------
Qualifies(shdr) ==
    /\ StartsWith(shdr.name, OvlPrefix)
    /\ ~EndsWith(shdr.name, BssSuffix)
    /\ SegmentTextSizeSymbol(shdr.name) \in DOMAIN symbols_forname
    /\ symbols_forname[SegmentTextSizeSymbol(shdr.name)] # 0

QualifyingNames ==
    LET q == SelectSeq(shdrs, Qualifies)
    IN  [j \in 1..Len(q) |-> q[j].name]

\* the names a text holds: its lines, the empty ones apart
RECURSIVE TextLines(_, _, _)
TextLines(text, cur, acc) ==
    IF Len(text) = 0
    THEN IF cur = <<>> THEN acc ELSE Append(acc, cur)
    ELSE IF Head(text) = "\n"
    THEN TextLines(Tail(text), <<>>, IF cur = <<>> THEN acc ELSE Append(acc, cur))
    ELSE TextLines(Tail(text), Append(cur, Head(text)), acc)

C7_OverlayList ==
    (pc # "abort" /\ files.overlays # None) =>
        TextLines(files.overlays[1], <<>>, <<>>) = QualifyingNames

\* one name is written while the table also holds "..ovl_a", left out for
\* its SegmentTextSize of 0, after the section written
C7_Witness ==
    /\ pc = "ucode_loop"
    /\ TextLines(files.overlays[1], <<>>, <<>>) = <<Name_ovl_b>>
    /\ \E j \in Named(Name_ovl_b), k \in Named(Name_ovl_a) : j < k

\* ------------------------------------------------------------------------
\* C8: a run goes past required-section discovery only if the table holds
\* exactly one ".symtab", one ".strtab" and one "..makerom".
\* ------------------------------------------------------------------------
C8_ExactlyOneOfEach ==
    pc \in AfterDiscovery =>
        \A nm \in {Name_symtab, Name_strtab, Name_makerom} :
            Cardinality(Named(nm)) = 1

\* ------------------------------------------------------------------------
\* C9: a microcode's binary or descriptor is written only in a step taken
\* with both digests matching, and a mismatch at the verification aborts
\* the run with no file written and none of that microcode's artifacts.
\* ------------------------------------------------------------------------
C9_DigestsGateArtifacts ==
    [][ /\ \A u \in UcodeIds :
             (\/ files'.text_bin[u] # files.text_bin[u]
              \/ files'.ucode_toml[u] # files.ucode_toml[u])
             => /\ ucode = u
                /\ md5sum(ucode_text[1]) = UCODES_FOR_RECOMP[u].text_md5
                /\ md5sum(ucode_data[1]) = UCODES_FOR_RECOMP[u].data_md5
        /\ (/\ pc = "verify"
            /\ \/ md5sum(ucode_text[1]) # UCODES_FOR_RECOMP[ucode].text_md5
               \/ md5sum(ucode_data[1]) # UCODES_FOR_RECOMP[ucode].data_md5)
           => /\ pc' = "abort"
              /\ files' = files
              /\ files.text_bin[ucode] = None
              /\ files.ucode_toml[ucode] = None
      ]_vars

\* both artifacts of the first microcode are written
C9_Witness ==
    /\ files.text_bin[1] # None
    /\ files.ucode_toml[1] # None

\* ------------------------------------------------------------------------
\* C10: a run that completes without a fatal error has written the
\* generated config, the overlay list and the ROM-config line.
\* ------------------------------------------------------------------------
C10_CompletedRunWroteAll ==
    pc = "exit0" =>
        /\ files.toml # None
        /\ files.overlays # None
        /\ files.rom_config # None

====
